---- MODULE Spec2Model ----
(***************************************************************************)
(* The centroid initialisations of kmean-rs (src/inits/randompartition.rs  *)
(* and src/inits/randomsample.rs) as a state machine.  A run is one call   *)
(* of an initialisation's `calculate` on a KMeans instance, a fresh        *)
(* KMeansState and the run's own randomness source.                        *)
(*                                                                         *)
(* Values of the primitive type T are modelled in exact arithmetic: a      *)
(* value v is the integer v * Scale, where every frequency that can occur  *)
(* divides Scale, so sv / frequency is exact.  NonFinite stands for the    *)
(* inf / NaN a division by a zero frequency yields.                        *)
(* Cluster ids and buffer offsets are 0-based as in the source; TLA+       *)
(* sequences are 1-based, so offset o of a buffer is element o + 1.        *)
(***************************************************************************)
EXTENDS Integers, Sequences, FiniteSets, TLC

(* ------------------------------ bounds --------------------------------- *)
\* Largest sample count of a run of the random-sample initialisation.
MaxN == 4
\* Largest sample count of a run of the random-partition initialisation.
MaxPartitionN == 3
\* Largest sample count when two runs share one KMeans instance.
MaxSharedN == 2
\* Largest number of sample blocks (p_samples.len()).
MaxP == 2
\* Largest sample dimension D.
MaxD == 2
\* Lane width (the const generic LANES).
LANES == 2
\* The flat sample buffers are the progressions first, first + step, ...
\* with first in 1..MaxVal and step in 0..MaxStep.
MaxVal == 2
MaxStep == 1

VARIABLES
    kmean,  \* the KMeans instance: sample_cnt, sample_dims, p_sample_dims, p_samples
    state,  \* run -> KMeansState: k, centroids, centroid_frequency, assignments
    rnd,    \* run -> the draws config.rnd has served so far: <<[range, value], ...>>
    pc,     \* run -> position inside calculate: method, phase, block, index, reservoir
    ghost   \* run -> history of the run's writes (not program state)

vars == <<kmean, state, rnd, pc, ghost>>

(* ------------------------------ helpers -------------------------------- *)
Max(a, b) == IF a >= b THEN a ELSE b

Min(a, b) == IF a <= b THEN a ELSE b

RECURSIVE Gcd(_, _)
Gcd(a, b) == IF b = 0 THEN a ELSE Gcd(b, a % b)

RECURSIVE LcmUpTo(_)
LcmUpTo(n) == IF n <= 1 THEN 1 ELSE (n * LcmUpTo(n - 1)) \div Gcd(n, LcmUpTo(n - 1))

\* Denominator of the exact representation of T.
Scale == LcmUpTo(Max(MaxN, Max(MaxPartitionN, MaxSharedN)))

NonFinite == 0 - 1

\* T::from(v) for an integer v.
ToT(v) == v * Scale

\* a + b in T.
Add(a, b) == IF a = NonFinite \/ b = NonFinite THEN NonFinite ELSE a + b

\* sv / T::from(frequency) in T.
Div(sv, f) == IF sv = NonFinite \/ f = 0 THEN NonFinite ELSE sv \div f

Zeros(n) == [i \in 1..n |-> 0]

RECURSIVE SumSeq(_)
SumSeq(s) == IF Len(s) = 0 THEN 0 ELSE s[1] + SumSeq(Tail(s))

RECURSIVE SumOver(_, _)
SumOver(S, f) ==
    IF S = {} THEN 0
    ELSE LET x == CHOOSE y \in S : TRUE IN f[x] + SumOver(S \ {x}, f)

(* ---------------------------- data model ------------------------------- *)
\* Stride: D rounded up to the next multiple of the lane width.
RoundUp(d, l) == ((d + l - 1) \div l) * l

\* Number of rows that precede block b, for block lengths lens.
Offset(lens, b) == SumSeq(SubSeq(lens, 1, b - 1))

\* The rows of a stride buffer, each stride wide.
ChunksExactStride(sb) ==
    [j \in 1..(Len(sb.bfr) \div sb.stride) |->
        SubSeq(sb.bfr, (j - 1) * sb.stride + 1, j * sb.stride)]

\* Row i (1-based) of the flat N x D buffer, padded with zero to stride.
PaddedRow(data, D, stride, i) ==
    [l \in 1..stride |-> IF l <= D THEN ToT(data[(i - 1) * D + l]) ELSE 0]

RECURSIVE Flatten(_)
Flatten(rows) == IF Len(rows) = 0 THEN <<>> ELSE rows[1] \o Flatten(Tail(rows))

\* KMeans::new: the samples split into Len(lens) blocks of contiguous rows.
KMeansNew(data, N, D, lens) ==
    LET stride == RoundUp(D, LANES) IN
    [ sample_cnt    |-> N,
      sample_dims   |-> D,
      p_sample_dims |-> stride,
      p_samples     |->
          [b \in 1..Len(lens) |->
              [ bfr    |-> Flatten([j \in 1..lens[b] |->
                              PaddedRow(data, D, stride, Offset(lens, b) + j)]),
                stride |-> stride ]] ]

\* The fresh run state of one invocation.
KMeansStateNew(N, stride, k) ==
    [ k                  |-> k,
      centroids          |-> [bfr |-> Zeros(k * stride), stride |-> stride],
      centroid_frequency |-> Zeros(k),
      assignments        |-> Zeros(N) ]

BlockLens(km) ==
    [b \in 1..Len(km.p_samples) |-> Len(km.p_samples[b].bfr) \div km.p_samples[b].stride]

\* Row with global index i (1-based) of the instance.
RECURSIVE RowsFrom(_, _)
RowsFrom(km, b) ==
    IF b > Len(km.p_samples) THEN <<>>
    ELSE ChunksExactStride(km.p_samples[b]) \o RowsFrom(km, b + 1)

AllRows(km) == RowsFrom(km, 1)

\* calculate borrows the instance shared (kmean: &KMeans): it is read only.
BorrowDrained(km) ==
    [km EXCEPT !.p_samples[1].bfr = Zeros(Len(km.p_samples[1].bfr))]

BorrowShared(km) == km

(* ------------------------ randomness source ---------------------------- *)
\* The outcomes of gen_range(0..n) and of gen_index(rng, n).
GenRange(n) == 0..(n - 1)

Draw(n, v) == [range |-> n, value |-> v]

(* ---------------------- random partition ------------------------------- *)
\* Pass 1, one assignment: *a = gen_range(0..k); centroid_frequency[*a] += 1.
AssignRandomNoTally(st, i, a) == [st EXCEPT !.assignments[i] = a]

AssignRandomTallyBefore(st, i, a) ==
    [st EXCEPT !.assignments[i] = a,
               !.centroid_frequency[st.assignments[i] + 1] = @ + 1]

AssignRandom(st, i, a) ==
    [st EXCEPT !.assignments[i] = a,
               !.centroid_frequency[a + 1] = @ + 1]

\* The assignment zipped with the j-th row of a block: the iterator over the
\* assignments is created anew for every block, so it starts at the front.
PairedAssignment(assignments, j) == assignments[j]

\* Number of (sample, assignment) pairs the zip yields for a block.
PairCount(rows, assignments) == Min(Len(rows), Len(assignments))

\* Buffer offsets (0-based) that skip(stride * assignment).zip(sample) visits.
VisitedOffsets(centroids, sample, assignment) ==
    { o \in 0..(Len(centroids.bfr) - 1) :
        /\ o >= centroids.stride * assignment
        /\ o - centroids.stride * assignment < Len(sample) }

\* Pass 2, one sample: *cv += sv / T::from(centroid_frequency[assignment]).
AccumulateSampleUnscaled(centroids, centroid_frequency, sample, assignment) ==
    [centroids EXCEPT !.bfr =
        [x \in 1..Len(centroids.bfr) |->
            IF (x - 1) \in VisitedOffsets(centroids, sample, assignment)
            THEN Add(centroids.bfr[x], sample[x - centroids.stride * assignment])
            ELSE centroids.bfr[x]]]

AccumulateSample(centroids, centroid_frequency, sample, assignment) ==
    [centroids EXCEPT !.bfr =
        [x \in 1..Len(centroids.bfr) |->
            IF (x - 1) \in VisitedOffsets(centroids, sample, assignment)
            THEN Add(centroids.bfr[x],
                     Div(sample[x - centroids.stride * assignment],
                         centroid_frequency[assignment + 1]))
            ELSE centroids.bfr[x]]]

\* Pass 1 as a whole, served the draws values[1], values[2], ...
RECURSIVE AssignAll(_, _, _)
AssignAll(st, values, i) ==
    IF i > Len(st.assignments) THEN st
    ELSE AssignAll(AssignRandom(st, i, values[i]), values, i + 1)

\* Pass 2 over the rows of one block, from pair j on.
RECURSIVE AccumulateBlock(_, _, _)
AccumulateBlock(st, rows, j) ==
    IF j > PairCount(rows, st.assignments) THEN st
    ELSE AccumulateBlock(
            [st EXCEPT !.centroids =
                AccumulateSample(st.centroids, st.centroid_frequency, rows[j],
                                 PairedAssignment(st.assignments, j))],
            rows, j + 1)

RECURSIVE AccumulateAll(_, _, _)
AccumulateAll(st, km, b) ==
    IF b > Len(km.p_samples) THEN st
    ELSE AccumulateAll(AccumulateBlock(st, ChunksExactStride(km.p_samples[b]), 1),
                       km, b + 1)

\* calculate of the random partition, as a function of the draws it is served.
RandomPartition(km, st, values) == AccumulateAll(AssignAll(st, values, 1), km, 1)

\* The ranges random partition requests from the randomness source, in order.
PartitionRequests(km, k) == [i \in 1..km.sample_cnt |-> k]

(* ------------------------ random sample -------------------------------- *)
\* Rows chosen per block: max(state.k / kmean.p_samples.len(), 1).
AmountCeil(k, P) == (k + P - 1) \div P

Amount(k, P) == Max(k \div P, 1)

\* choose_multiple: the reservoir starts as the first `amount` rows of the
\* block (fewer if the block is shorter); entries are 1-based row numbers.
ReservoirTake(len, amount) == [x \in 1..Min(amount, len) |-> x]

\* choose_multiple draws gen_index(rng, i + 1 + amount) for the i-th further row.
DrawBound(i, amount) == i + 1 + amount

\* if let Some(slot) = reservoir.get_mut(k) { *slot = elem }
ReservoirReplace(res, kk, elem) ==
    IF kk < Len(res) THEN [res EXCEPT ![kk + 1] = elem] ELSE res

\* Draws choose_multiple makes on a block of len rows.
DrawsNeeded(len, amount) == IF len > amount THEN len - amount ELSE 0

\* enumerate(): the centroid slot the ci-th chosen row of a block is copied to.
CentroidSlotFirst(ci) == 0

CentroidSlot(ci) == ci

\* centroids.set_nth_from_iter(n, row): overwrite chunk n with the row.
SetNthFromIter(centroids, n, row) ==
    [centroids EXCEPT !.bfr =
        [x \in 1..Len(centroids.bfr) |->
            IF x - 1 >= n * centroids.stride /\ x - 1 - n * centroids.stride < Len(row)
            THEN row[x - n * centroids.stride]
            ELSE centroids.bfr[x]]]

SlotOffsets(centroids, n) ==
    { o \in 0..(Len(centroids.bfr) - 1) :
        o >= n * centroids.stride /\ o < (n + 1) * centroids.stride }

\* choose_multiple as a whole on a block of len rows, served values[1], ...
RECURSIVE ReplaceAll(_, _, _, _, _)
ReplaceAll(res, len, amount, values, i) ==
    IF amount + i >= len THEN res
    ELSE ReplaceAll(ReservoirReplace(res, values[i + 1], amount + i + 1),
                    len, amount, values, i + 1)

ChooseMultiple(len, amount, values) ==
    LET res == ReservoirTake(len, amount) IN
    IF Len(res) = amount THEN ReplaceAll(res, len, amount, values, 0) ELSE res

RECURSIVE CopyChosen(_, _, _, _)
CopyChosen(centroids, rows, res, ci) ==
    IF ci >= Len(res) THEN centroids
    ELSE CopyChosen(SetNthFromIter(centroids, CentroidSlot(ci), rows[res[ci + 1]]),
                    rows, res, ci + 1)

RECURSIVE SampleBlocks(_, _, _, _)
SampleBlocks(st, km, values, b) ==
    IF b > Len(km.p_samples) THEN st
    ELSE LET rows   == ChunksExactStride(km.p_samples[b])
             amount == Amount(st.k, Len(km.p_samples))
             need   == DrawsNeeded(Len(rows), amount)
             res    == ChooseMultiple(Len(rows), amount, values)
         IN  SampleBlocks([st EXCEPT !.centroids = CopyChosen(@, rows, res, 0)],
                          km, SubSeq(values, need + 1, Len(values)), b + 1)

\* calculate of the random sample, as a function of the draws it is served.
RandomSample(km, st, values) == SampleBlocks(st, km, values, 1)

\* The ranges random sample requests from the randomness source, in order.
RECURSIVE SampleRequestsFrom(_, _, _)
SampleRequestsFrom(km, k, b) ==
    IF b > Len(km.p_samples) THEN <<>>
    ELSE LET len    == BlockLens(km)[b]
             amount == Amount(k, Len(km.p_samples))
         IN  [i \in 1..DrawsNeeded(len, amount) |-> DrawBound(i - 1, amount)]
             \o SampleRequestsFrom(km, k, b + 1)

SampleRequests(km, k) == SampleRequestsFrom(km, k, 1)

(* ------------------------------ update --------------------------------- *)
Members(st, c) == { i \in 1..Len(st.assignments) : st.assignments[i] = c }

\* The update of the full-batch variant: frequencies recounted from the
\* assignments, every non-empty cluster's centroid the mean of its samples,
\* an empty cluster's centroid kept.
UpdateCentroids(km, st) ==
    LET rows == AllRows(km)
        freq == [c \in 1..st.k |-> Cardinality(Members(st, c - 1))]
        s    == st.centroids.stride
    IN  [st EXCEPT
            !.centroid_frequency = freq,
            !.centroids.bfr =
                [x \in 1..Len(st.centroids.bfr) |->
                    LET c == (x - 1) \div s
                        l == ((x - 1) % s) + 1
                    IN  IF freq[c + 1] = 0 THEN st.centroids.bfr[x]
                        ELSE SumOver(Members(st, c), [i \in 1..Len(rows) |-> rows[i][l]])
                                \div freq[c + 1]]]

(* ------------------------------ state ---------------------------------- *)
Runs == DOMAIN state

\* The flat sample buffer first, first + step, first + 2 * step, ...
Progression(first, step, n) == [x \in 1..n |-> first + step * (x - 1)]

\* Block lengths: P non-empty blocks of contiguous rows holding N rows.
Splits(N, P) == { lens \in [1..P -> 1..N] : SumSeq(lens) = N }

\* Where calculate starts.
Entry(method) ==
    [ method |-> method,
      phase  |-> IF method = "partition" THEN "pass1" ELSE "take",
      b      |-> 1,
      i      |-> IF method = "partition" THEN 1 ELSE 0,
      res    |-> <<>> ]

NoWrites(k) ==
    [ touched |-> {}, target |-> 0 - 1, sample |-> 0, divs |-> {}, origin |-> Zeros(k) ]

InitRuns(maxN, runs, methods, firsts, steps) ==
    \E first \in firsts, step \in steps, N \in 1..maxN, D \in 1..MaxD,
       P \in 1..MaxP :
      \E lens \in Splits(N, P), ks \in [runs -> 1..N], ms \in [runs -> methods] :
        /\ kmean = KMeansNew(Progression(first, step, N * D), N, D, lens)
        /\ state = [r \in runs |-> KMeansStateNew(N, RoundUp(D, LANES), ks[r])]
        /\ rnd = [r \in runs |-> <<>>]
        /\ pc = [r \in runs |-> Entry(ms[r])]
        /\ ghost = [r \in runs |-> NoWrites(ks[r])]

Init ==
    \/ InitRuns(MaxPartitionN, {1}, {"partition"}, 1..MaxVal, 0..MaxStep)
    \/ InitRuns(MaxN, {1}, {"sample"}, 1..MaxVal, 0..MaxStep)

\* Two runs on one instance; its rows are pairwise different.
InitShared == InitRuns(MaxSharedN, {1, 2}, {"partition", "sample"}, {MaxVal}, {MaxStep})

\* Global index (1-based) of row j of block b.
GlobalIndex(km, b, j) == Offset(BlockLens(km), b) + j

(* ----------------------------- actions --------------------------------- *)
\* randompartition.rs, pass 1, one iteration of the loop over the assignments.
PartitionAssign(r) ==
    /\ pc[r].method = "partition" /\ pc[r].phase = "pass1"
    /\ \E a \in GenRange(state[r].k) :
        /\ state' = [state EXCEPT ![r] = AssignRandom(@, pc[r].i, a)]
        /\ rnd' = [rnd EXCEPT ![r] = Append(@, Draw(state[r].k, a))]
    /\ pc' = [pc EXCEPT ![r] =
                IF pc[r].i = Len(state[r].assignments)
                THEN [@ EXCEPT !.phase = "pass2", !.b = 1, !.i = 1]
                ELSE [@ EXCEPT !.i = @ + 1]]
    /\ ghost' = [ghost EXCEPT ![r].touched = {}, ![r].target = 0 - 1, ![r].sample = 0]
    /\ kmean' = BorrowShared(kmean)

\* randompartition.rs, pass 2, one (sample, assignment) pair of one block.
PartitionAccumulate(r) ==
    /\ pc[r].method = "partition" /\ pc[r].phase = "pass2"
    /\ LET st         == state[r]
           b          == pc[r].b
           j          == pc[r].i
           rows       == ChunksExactStride(kmean.p_samples[b])
           assignment == PairedAssignment(st.assignments, j)
       IN  /\ state' = [state EXCEPT ![r].centroids =
                          AccumulateSample(@, st.centroid_frequency, rows[j], assignment)]
           /\ ghost' = [ghost EXCEPT
                          ![r].touched = VisitedOffsets(st.centroids, rows[j], assignment),
                          ![r].target = assignment,
                          ![r].sample = GlobalIndex(kmean, b, j),
                          ![r].divs = @ \cup {st.centroid_frequency[assignment + 1]}]
           /\ pc' = [pc EXCEPT ![r] =
                        IF j < PairCount(rows, st.assignments) THEN [@ EXCEPT !.i = j + 1]
                        ELSE IF b < Len(kmean.p_samples) THEN [@ EXCEPT !.b = b + 1, !.i = 1]
                        ELSE [@ EXCEPT !.phase = "done"]]
    /\ kmean' = BorrowShared(kmean)
    /\ UNCHANGED rnd

\* choose_multiple on block b: reservoir.extend(self.by_ref().take(amount)).
SampleTake(r) ==
    /\ pc[r].method = "sample" /\ pc[r].phase = "take"
    /\ LET len    == BlockLens(kmean)[pc[r].b]
           amount == Amount(state[r].k, Len(kmean.p_samples))
           res    == ReservoirTake(len, amount)
       IN  pc' = [pc EXCEPT ![r].res = res,
                            ![r].i = 0,
                            ![r].phase = IF Len(res) = amount /\ DrawsNeeded(len, amount) > 0
                                         THEN "draw" ELSE "copy"]
    /\ ghost' = [ghost EXCEPT ![r].touched = {}, ![r].target = 0 - 1, ![r].sample = 0]
    /\ kmean' = BorrowShared(kmean)
    /\ UNCHANGED <<state, rnd>>

\* choose_multiple on block b: one further row, one draw.
SampleDraw(r) ==
    /\ pc[r].method = "sample" /\ pc[r].phase = "draw"
    /\ LET len    == BlockLens(kmean)[pc[r].b]
           amount == Amount(state[r].k, Len(kmean.p_samples))
           i      == pc[r].i
       IN  \E kk \in GenRange(DrawBound(i, amount)) :
            /\ rnd' = [rnd EXCEPT ![r] = Append(@, Draw(DrawBound(i, amount), kk))]
            /\ pc' = [pc EXCEPT ![r].res = ReservoirReplace(@, kk, amount + i + 1),
                                ![r].i = IF amount + i + 1 < len THEN i + 1 ELSE 0,
                                ![r].phase = IF amount + i + 1 < len THEN "draw" ELSE "copy"]
    /\ ghost' = [ghost EXCEPT ![r].touched = {}, ![r].target = 0 - 1, ![r].sample = 0]
    /\ kmean' = BorrowShared(kmean)
    /\ UNCHANGED state

\* randomsample.rs: one chosen row copied into state.centroids.
SampleCopy(r) ==
    /\ pc[r].method = "sample" /\ pc[r].phase = "copy"
    /\ LET b    == pc[r].b
           ci   == pc[r].i
           res  == pc[r].res
           rows == ChunksExactStride(kmean.p_samples[b])
           slot == CentroidSlot(ci)
       IN  /\ state' = [state EXCEPT ![r].centroids =
                          SetNthFromIter(@, slot, rows[res[ci + 1]])]
           /\ ghost' = [ghost EXCEPT
                          ![r].touched = SlotOffsets(state[r].centroids, slot),
                          ![r].target = slot,
                          ![r].sample = GlobalIndex(kmean, b, res[ci + 1]),
                          ![r].origin = IF slot + 1 \in DOMAIN @
                                        THEN [@ EXCEPT ![slot + 1] = GlobalIndex(kmean, b, res[ci + 1])]
                                        ELSE @]
           /\ pc' = [pc EXCEPT ![r] =
                        IF ci + 1 < Len(res) THEN [@ EXCEPT !.i = ci + 1]
                        ELSE IF b < Len(kmean.p_samples)
                             THEN [@ EXCEPT !.b = b + 1, !.i = 0, !.phase = "take"]
                        ELSE [@ EXCEPT !.phase = "done"]]
    /\ kmean' = BorrowShared(kmean)
    /\ UNCHANGED rnd

\* One update of the full-batch variant directly after the random partition.
Update(r) ==
    /\ pc[r].method = "partition" /\ pc[r].phase = "done"
    /\ state' = [state EXCEPT ![r] = UpdateCentroids(kmean, @)]
    /\ pc' = [pc EXCEPT ![r].phase = "updated"]
    /\ ghost' = [ghost EXCEPT ![r].touched = {}, ![r].target = 0 - 1, ![r].sample = 0]
    /\ UNCHANGED <<kmean, rnd>>

Next ==
    \/ \E r \in Runs : PartitionAssign(r)
    \/ \E r \in Runs : PartitionAccumulate(r)
    \/ \E r \in Runs : SampleTake(r)
    \/ \E r \in Runs : SampleDraw(r)
    \/ \E r \in Runs : SampleCopy(r)
    \/ \E r \in Runs : Update(r)

Spec == Init /\ [][Next]_vars

\* Two runs over one KMeans instance, their steps interleaved in any order.
NextShared ==
    \/ \E r \in Runs : PartitionAssign(r)
    \/ \E r \in Runs : PartitionAccumulate(r)
    \/ \E r \in Runs : SampleTake(r)
    \/ \E r \in Runs : SampleDraw(r)
    \/ \E r \in Runs : SampleCopy(r)

SpecShared == InitShared /\ [][NextShared]_vars

(* --------------------------- claim helpers ----------------------------- *)
\* Centroid row c (0-based) of a centroid buffer.
CentroidRow(centroids, c) ==
    SubSeq(centroids.bfr, c * centroids.stride + 1, (c + 1) * centroids.stride)

RowOffsets(centroids, c) ==
    (c * centroids.stride)..((c + 1) * centroids.stride - 1)

\* Sum over the samples of cluster c of lane l.
LaneSum(km, st, c, l) ==
    SumOver(Members(st, c), [i \in 1..km.sample_cnt |-> AllRows(km)[i][l]])

IsPartition(r) == pc[r].method = "partition"

IsSample(r) == pc[r].method = "sample"

Done(r) == pc[r].phase = "done"

\* The same rows held in a single block (P = 1).
SingleBlock(km) ==
    [km EXCEPT !.p_samples =
        << [bfr |-> Flatten(AllRows(km)), stride |-> km.p_sample_dims] >>]

Values(log) == [x \in 1..Len(log) |-> log[x].value]

Requests(log) == [x \in 1..Len(log) |-> log[x].range]

Fresh(km, k) == KMeansStateNew(km.sample_cnt, km.p_sample_dims, k)

\* The state calculate ends in when it runs alone on km with the draws of log.
RunAlone(km, method, k, log) ==
    IF method = "partition" THEN RandomPartition(km, Fresh(km, k), Values(log))
    ELSE RandomSample(km, Fresh(km, k), Values(log))

Distinct(s) == \A x, y \in DOMAIN s : x # y => s[x] # s[y]

(* ------------------------------ claims --------------------------------- *)
\* C1 (as claimed): after the random partition, for any number of blocks, the
\* centroid of every cluster with at least one assigned sample is the
\* arithmetic mean of exactly the samples i with assignments[i] = c.
C1_CentroidIsMeanOfAssigned ==
    \A r \in Runs :
        IsPartition(r) /\ Done(r) =>
            \A c \in 0..(state[r].k - 1) :
                Members(state[r], c) # {} =>
                    \A l \in 1..state[r].centroids.stride :
                        CentroidRow(state[r].centroids, c)[l] * Cardinality(Members(state[r], c))
                            = LaneSum(kmean, state[r], c, l)

\* C4: after the random partition on a fresh run state every assignment lies
\* in [0, k), centroid_frequency[c] is the number of samples assigned to c,
\* and the frequencies sum to N.
C4_AssignmentsAndFrequencies ==
    \A r \in Runs :
        IsPartition(r) /\ Done(r) =>
            /\ Len(state[r].assignments) = kmean.sample_cnt
            /\ \A i \in 1..kmean.sample_cnt : state[r].assignments[i] \in 0..(state[r].k - 1)
            /\ Len(state[r].centroid_frequency) = state[r].k
            /\ \A c \in 0..(state[r].k - 1) :
                  state[r].centroid_frequency[c + 1] = Cardinality(Members(state[r], c))
            /\ SumSeq(state[r].centroid_frequency) = kmean.sample_cnt

\* C4 witness: a finished random partition over two blocks, with a cluster
\* that holds two samples and a cluster that holds none.
C4_Witness ==
    \E r \in Runs :
        /\ IsPartition(r) /\ Done(r)
        /\ Len(kmean.p_samples) = 2 /\ state[r].k = 3
        /\ \E c, e \in 1..state[r].k :
              state[r].centroid_frequency[c] = 2 /\ state[r].centroid_frequency[e] = 0

\* C5: for k = 1 and any number of blocks, the centroid the random partition
\* writes is the arithmetic mean of all N samples, and it still is after one
\* update.
C5_SingleClusterMean ==
    \A r \in Runs :
        IsPartition(r) /\ state[r].k = 1 /\ pc[r].phase \in {"done", "updated"} =>
            \A l \in 1..state[r].centroids.stride :
                CentroidRow(state[r].centroids, 0)[l] * kmean.sample_cnt
                    = SumOver(1..kmean.sample_cnt,
                              [i \in 1..kmean.sample_cnt |-> AllRows(kmean)[i][l]])

\* C5 witness: k = 1, three different samples in two blocks, initialised and
\* updated once.
C5_Witness ==
    \E r \in Runs :
        /\ IsPartition(r) /\ state[r].k = 1 /\ pc[r].phase = "updated"
        /\ kmean.sample_cnt = 3 /\ Len(kmean.p_samples) = 2
        /\ AllRows(kmean)[1] # AllRows(kmean)[2]
        /\ CentroidRow(state[r].centroids, 0)[1] > 0

\* C9: in the random partition no frequency used as a divisor is zero, and a
\* cluster pass 1 gave no sample is not written in pass 2 and keeps its
\* all-zero centroid.
C9_EmptyClusterUntouched ==
    \A r \in Runs :
        IsPartition(r) =>
            /\ 0 \notin ghost[r].divs
            /\ pc[r].phase \in {"pass2", "done"} =>
                  \A c \in 0..(state[r].k - 1) :
                      state[r].centroid_frequency[c + 1] = 0 =>
                          /\ \A l \in 1..state[r].centroids.stride :
                                CentroidRow(state[r].centroids, c)[l] = 0
                          /\ ghost[r].touched \cap RowOffsets(state[r].centroids, c) = {}

\* C9 witness: a finished random partition over two blocks that divided by a
\* frequency and left a cluster without samples.
C9_Witness ==
    \E r \in Runs :
        /\ IsPartition(r) /\ Done(r) /\ Len(kmean.p_samples) = 2
        /\ ghost[r].divs # {}
        /\ \E c \in 1..state[r].k : state[r].centroid_frequency[c] = 0
        /\ \E x \in DOMAIN state[r].centroids.bfr : state[r].centroids.bfr[x] > 0

\* C2: the random sample on a single block, 1 <= k <= N: each of the k
\* centroid rows is a verbatim copy of a sample row, and the k rows copied
\* have pairwise different sample indices.
C2_SingleBlockDistinctCopies ==
    \A r \in Runs :
        IsSample(r) /\ Done(r) /\ Len(kmean.p_samples) = 1 =>
            /\ \A c \in 0..(state[r].k - 1) :
                  /\ ghost[r].origin[c + 1] \in 1..kmean.sample_cnt
                  /\ CentroidRow(state[r].centroids, c)
                        = AllRows(kmean)[ghost[r].origin[c + 1]]
            /\ Distinct(ghost[r].origin)

\* C2 witness: a finished single-block random sample with k = 2 of four rows
\* in which a later row replaced a row of the reservoir.
C2_Witness ==
    \E r \in Runs :
        /\ IsSample(r) /\ Done(r) /\ Len(kmean.p_samples) = 1
        /\ state[r].k = 2 /\ kmean.sample_cnt = 4
        /\ ghost[r].origin = <<4, 3>>
        /\ CentroidRow(state[r].centroids, 0) # CentroidRow(state[r].centroids, 1)

\* C3 (as claimed): the random sample on P > 1 blocks, k a multiple of P and
\* every block holding at least k / P rows: every one of the k centroid rows
\* is a verbatim copy of a sample row and none is left at its default.
C3_EveryCentroidFilled ==
    \A r \in Runs :
        /\ IsSample(r) /\ Done(r) /\ Len(kmean.p_samples) > 1
        /\ state[r].k % Len(kmean.p_samples) = 0
        /\ \A b \in 1..Len(kmean.p_samples) :
              BlockLens(kmean)[b] >= state[r].k \div Len(kmean.p_samples)
        => \A c \in 0..(state[r].k - 1) :
              /\ ghost[r].origin[c + 1] \in 1..kmean.sample_cnt
              /\ CentroidRow(state[r].centroids, c)
                    = AllRows(kmean)[ghost[r].origin[c + 1]]
              /\ CentroidRow(state[r].centroids, c) # Zeros(state[r].centroids.stride)

\* C8 (as claimed): the random sample draws exactly ceil(k / P) distinct rows
\* from every block that holds at least that many rows.
C8_DrawsCeilPerBlock ==
    \A r \in Runs :
        LET P    == Len(kmean.p_samples)
            ceil == (state[r].k + P - 1) \div P
        IN  IsSample(r) /\ pc[r].phase = "copy" /\ BlockLens(kmean)[pc[r].b] >= ceil =>
                /\ Len(pc[r].res) = ceil
                /\ Distinct(pc[r].res)

\* C8 (amended): the random sample draws exactly max(floor(k / P), 1)
\* distinct rows of the block from every block that holds at least that many
\* rows.
C8_DrawsFloorPerBlock ==
    \A r \in Runs :
        LET P     == Len(kmean.p_samples)
            floor == IF state[r].k \div P >= 1 THEN state[r].k \div P ELSE 1
        IN  IsSample(r) /\ pc[r].phase = "copy" /\ BlockLens(kmean)[pc[r].b] >= floor =>
                /\ Len(pc[r].res) = floor
                /\ \A x \in DOMAIN pc[r].res : pc[r].res[x] \in 1..BlockLens(kmean)[pc[r].b]
                /\ Distinct(pc[r].res)

\* C8 witness: k = 3 on two blocks; choose_multiple has finished on a block
\* of three rows and chose one row, a later one.
C8_Witness ==
    \E r \in Runs :
        /\ IsSample(r) /\ pc[r].phase = "copy"
        /\ state[r].k = 3 /\ Len(kmean.p_samples) = 2
        /\ BlockLens(kmean)[pc[r].b] = 3
        /\ pc[r].res = <<3>>

\* C6 (as claimed): the draws an initialisation requests, and the assignments
\* and centroids it produces from them, are those of the same initialisation
\* of the same samples held in a single block.
C6_IndependentOfBlockCount ==
    \A r \in Runs :
        Done(r) =>
            /\ Requests(rnd[r]) =
                  IF IsPartition(r) THEN PartitionRequests(SingleBlock(kmean), state[r].k)
                  ELSE SampleRequests(SingleBlock(kmean), state[r].k)
            /\ state[r] = RunAlone(SingleBlock(kmean), pc[r].method, state[r].k, rnd[r])

\* C10 (as claimed): every write of either initialisation lies inside the
\* K x stride centroid buffer; the random sample writes a slot below k, and
\* the random partition writes, for a sample, only lanes of the centroid row
\* of the cluster pass 1 assigned to that sample.
C10_WritesOwnRowOnly ==
    \A r \in Runs :
        /\ Len(state[r].centroids.bfr) = state[r].k * state[r].centroids.stride
        /\ ghost[r].touched \subseteq 0..(state[r].k * state[r].centroids.stride - 1)
        /\ ghost[r].touched # {} /\ IsSample(r) =>
              /\ ghost[r].target \in 0..(state[r].k - 1)
              /\ ghost[r].touched \subseteq RowOffsets(state[r].centroids, ghost[r].target)
        /\ ghost[r].touched # {} /\ IsPartition(r) =>
              ghost[r].touched \subseteq
                  RowOffsets(state[r].centroids, state[r].assignments[ghost[r].sample])

\* The part of C10 that does not depend on which sample a row belongs to:
\* every write of either initialisation covers exactly the stride lanes of
\* one centroid row below k, inside the K x stride buffer.
WritesOneRowInsideBuffer ==
    \A r \in Runs :
        /\ Len(state[r].centroids.bfr) = state[r].k * state[r].centroids.stride
        /\ ghost[r].touched \subseteq 0..(state[r].k * state[r].centroids.stride - 1)
        /\ ghost[r].touched # {} =>
              /\ ghost[r].target \in 0..(state[r].k - 1)
              /\ ghost[r].touched = RowOffsets(state[r].centroids, ghost[r].target)

\* C7: no step of a run changes the KMeans instance, and each of two runs
\* interleaved on one instance ends in the state it reaches alone.
C7_RunsDoNotInterfere ==
    /\ [][kmean' = kmean]_vars
    /\ [](\A r \in Runs :
            Done(r) => state[r] = RunAlone(kmean, pc[r].method, state[r].k, rnd[r]))

\* C7 witness: a random partition and a random sample, both finished on the
\* same two-block instance, both having written their centroids.
C7_Witness ==
    /\ Cardinality(Runs) = 2
    /\ \A r \in Runs : Done(r)
    /\ \E r, q \in Runs : IsPartition(r) /\ IsSample(q)
    /\ Len(kmean.p_samples) = 2
    /\ \A r \in Runs : \E x \in DOMAIN state[r].centroids.bfr : state[r].centroids.bfr[x] > 0

====
